---- MODULE Spec2Model ----
(***************************************************************************)
(* Model of gnews_mcp_server.py: seven MCP tools, each a thin wrapper that *)
(* builds a request-scoped GNews collaborator, calls one of its methods    *)
(* and wraps the outcome in a JSON envelope.                               *)
(*                                                                         *)
(* Strings the code only passes along (keyword, location, site, language,  *)
(* country, period) are TLA+ strings.  Strings the code computes on        *)
(* (topic: .upper(); exclude_websites: .split(",") and .strip()) are       *)
(* sequences of one-character strings.                                     *)
(***************************************************************************)
EXTENDS Integers, Sequences, FiniteSets, TLC

\* Number of tool calls the transport may have in flight at once.
MaxCalls == 2

Calls == 1..MaxCalls

----------------------------------------------------------------------------
\* str.upper() on the characters the inputs use: ASCII letters map to their
\* capital, every other character is unchanged.
UpperMap ==
    [a |-> "A", b |-> "B", c |-> "C", d |-> "D", e |-> "E", f |-> "F",
     g |-> "G", h |-> "H", i |-> "I", j |-> "J", k |-> "K", l |-> "L",
     m |-> "M", n |-> "N", o |-> "O", p |-> "P", q |-> "Q", r |-> "R",
     s |-> "S", t |-> "T", u |-> "U", v |-> "V", w |-> "W", x |-> "X",
     y |-> "Y", z |-> "Z"]

UpperChar(ch) == IF ch \in DOMAIN UpperMap THEN UpperMap[ch] ELSE ch

\* A faulty upper(): leaves the string as the caller wrote it.
UpperNoop(str) == str

\* topic.upper()
Upper(str) == [idx \in DOMAIN str |-> UpperChar(str[idx])]

\* valid_topics
valid_topics ==
    << <<"W","O","R","L","D">>,
       <<"N","A","T","I","O","N">>,
       <<"B","U","S","I","N","E","S","S">>,
       <<"T","E","C","H","N","O","L","O","G","Y">>,
       <<"E","N","T","E","R","T","A","I","N","M","E","N","T">>,
       <<"S","P","O","R","T","S">>,
       <<"S","C","I","E","N","C","E">>,
       <<"H","E","A","L","T","H">>,
       <<"P","O","L","I","T","I","C","S">>,
       <<"C","E","L","E","B","R","I","T","I","E","S">> >>

\* x in valid_topics (list membership)
InList(x, list) == \E idx \in DOMAIN list : list[idx] = x

\* A faulty membership test that lets every topic through.
TopicNeverRejected(topic) == FALSE

\* A faulty membership test that forgets to upper-case the topic.
TopicRejectedCaseSensitive(topic) == ~InList(topic, valid_topics)

\* topic_upper not in valid_topics
TopicRejected(topic) == ~InList(Upper(topic), valid_topics)

\* f"Invalid topic.  Valid topics are: {', '.join(valid_topics)}"
InvalidTopicMessage == "Invalid topic.  Valid topics are: WORLD, NATION, BUSINESS, TECHNOLOGY, ENTERTAINMENT, SPORTS, SCIENCE, HEALTH, POLITICS, CELEBRITIES"

----------------------------------------------------------------------------
\* exclude_websites.split(",") and x.strip()

IsSpace(ch) == ch \in {" ", "\t"}

RECURSIVE LStrip(_)
LStrip(str) ==
    IF str = <<>> THEN <<>>
    ELSE IF IsSpace(Head(str)) THEN LStrip(Tail(str)) ELSE str

RECURSIVE RStrip(_)
RStrip(str) ==
    IF str = <<>> THEN <<>>
    ELSE IF IsSpace(str[Len(str)]) THEN RStrip(SubSeq(str, 1, Len(str) - 1))
    ELSE str

\* x.strip()
Strip(str) == RStrip(LStrip(str))

\* str.split(","): the pieces between commas, empty pieces included.
RECURSIVE SplitFrom(_, _)
SplitFrom(str, piece) ==
    IF str = <<>> THEN <<piece>>
    ELSE IF Head(str) = "," THEN <<piece>> \o SplitFrom(Tail(str), <<>>)
    ELSE SplitFrom(Tail(str), Append(piece, Head(str)))

Split(str) == SplitFrom(str, <<>>)

\* [x.strip() for x in parts if x.strip()]
RECURSIVE StripNonEmpty(_)
StripNonEmpty(parts) ==
    IF parts = <<>> THEN <<>>
    ELSE IF Strip(Head(parts)) # <<>>
         THEN <<Strip(Head(parts))>> \o StripNonEmpty(Tail(parts))
         ELSE StripNonEmpty(Tail(parts))

\* exclude_list = [...] if exclude_websites else []
exclude_list(exclude_websites) ==
    IF exclude_websites # <<>> THEN StripNonEmpty(Split(exclude_websites)) ELSE <<>>

----------------------------------------------------------------------------
\* Tool arguments the callers send.

\* Arguments of search_news: the defaults of the signature with and without
\* a keyword, and a caller that overrides every option.
SearchInputs ==
    { [keyword |-> "", language |-> "en", country |-> "US", period |-> "7d",
       max_results |-> 10, exclude_websites |-> <<>>],
      [keyword |-> "ai", language |-> "en", country |-> "US", period |-> "7d",
       max_results |-> 10, exclude_websites |-> <<>>],
      [keyword |-> "ai", language |-> "fr", country |-> "FR", period |-> "12h", max_results |-> 101,
       exclude_websites |-> <<"a", ",", " ", ",", " ", "b", " ">>] }

\* Optional arguments of get_top_news: the defaults, and a caller that
\* overrides them.
TopOptions ==
    { [language |-> "en", country |-> "US", max_results |-> 10],
      [language |-> "fr", country |-> "IN", max_results |-> 0] }

\* get_news_by_topic, get_news_by_location and get_news_by_site are called
\* with the defaults of their signatures.
DefaultOptions == { [language |-> "en", country |-> "US", max_results |-> 10] }

LocationInputs == {"", "Paris"}
SiteInputs == {"", "cnn.com"}
TopicInputs ==
    { <<"S","P","O","R","T","S">>,
      <<"s","p","o","r","t","s">>,
      <<"W","o","r","l","d">>,
      <<"S","P","O","R","T","S","B","A","L","L">>,
      <<" ","s","p","o","r","t","s">>,
      <<>> }

Requests ==
    { [tool |-> "search_news", keyword |-> o.keyword, language |-> o.language,
       country |-> o.country, period |-> o.period, max_results |-> o.max_results,
       exclude_websites |-> o.exclude_websites] : o \in SearchInputs }
    \cup
    { [tool |-> "get_top_news", language |-> o.language, country |-> o.country,
       max_results |-> o.max_results] : o \in TopOptions }
    \cup
    { [tool |-> "get_news_by_topic", topic |-> tp, language |-> o.language,
       country |-> o.country, max_results |-> o.max_results] :
         tp \in TopicInputs, o \in DefaultOptions }
    \cup
    { [tool |-> "get_news_by_location", location |-> loc, language |-> o.language,
       country |-> o.country, max_results |-> o.max_results] :
         loc \in LocationInputs, o \in DefaultOptions }
    \cup
    { [tool |-> "get_news_by_site", site |-> st, language |-> o.language,
       country |-> o.country, max_results |-> o.max_results] :
         st \in SiteInputs, o \in DefaultOptions }
    \cup
    { [tool |-> "get_available_countries"], [tool |-> "get_available_languages"] }

QueryTools ==
    {"search_news", "get_top_news", "get_news_by_topic", "get_news_by_location",
     "get_news_by_site"}

ListTools == {"get_available_countries", "get_available_languages"}

----------------------------------------------------------------------------
\* The collaborator, as the server sees it.

\* What a retrieval method may return: a list of article records.
NewsResults ==
    { << [title |-> "t", description |-> "d", url |-> "u", publisher |-> "p"] >> }

\* str(e) of what a retrieval method may raise; an exception built without
\* arguments has the empty description.
ExceptionMessages == {"", "timed out"}

\* str(e) of what the constructor may raise.
ConstructorMessages == {"invalid argument"}

\* google_news.AVAILABLE_COUNTRIES and google_news.AVAILABLE_LANGUAGES
AVAILABLE_COUNTRIES == [Australia |-> "AU", India |-> "IN"]
AVAILABLE_LANGUAGES == [english |-> "en", french |-> "fr"]

----------------------------------------------------------------------------
\* Keyword arguments each tool hands to GNews(...).

search_news_kwargs(r) ==
    [language |-> r.language, country |-> r.country, period |-> r.period,
     max_results |-> r.max_results,
     exclude_websites |-> exclude_list(r.exclude_websites)]

get_top_news_kwargs(r) ==
    [language |-> r.language, country |-> r.country, max_results |-> r.max_results]

get_news_by_topic_kwargs(r) ==
    [language |-> r.language, country |-> r.country, max_results |-> r.max_results]

get_news_by_location_kwargs(r) ==
    [language |-> r.language, country |-> r.country, max_results |-> r.max_results]

get_news_by_site_kwargs(r) ==
    [language |-> r.language, country |-> r.country, max_results |-> r.max_results]

\* GNews() of the two list tools: no argument.
no_kwargs == [x \in {} |-> x]

KwArgs(r) ==
    CASE r.tool = "search_news" -> search_news_kwargs(r)
      [] r.tool = "get_top_news" -> get_top_news_kwargs(r)
      [] r.tool = "get_news_by_topic" -> get_news_by_topic_kwargs(r)
      [] r.tool = "get_news_by_location" -> get_news_by_location_kwargs(r)
      [] r.tool = "get_news_by_site" -> get_news_by_site_kwargs(r)
      [] r.tool \in ListTools -> no_kwargs

\* The retrieval method each tool calls on its collaborator, with its argument.
search_news_call(r) == [method |-> "get_news", args |-> <<r.keyword>>]

get_top_news_call(r) == [method |-> "get_top_news", args |-> <<>>]

get_news_by_topic_call(r) == [method |-> "get_news_by_topic", args |-> <<Upper(r.topic)>>]

get_news_by_location_call(r) == [method |-> "get_news_by_location", args |-> <<r.location>>]

get_news_by_site_call(r) == [method |-> "get_news_by_site", args |-> <<r.site>>]

MethodCall(r) ==
    CASE r.tool = "search_news" -> search_news_call(r)
      [] r.tool = "get_top_news" -> get_top_news_call(r)
      [] r.tool = "get_news_by_topic" -> get_news_by_topic_call(r)
      [] r.tool = "get_news_by_location" -> get_news_by_location_call(r)
      [] r.tool = "get_news_by_site" -> get_news_by_site_call(r)

----------------------------------------------------------------------------
\* The dictionaries handed to json.dumps.

\* A faulty error envelope that also carries a result list.
ErrorEnvelopeWithResults(msg) == [status |-> "error", message |-> msg, results |-> <<>>]

\* {"status": "error", "message": str(e)}
ErrorEnvelope(msg) == [status |-> "error", message |-> msg]

search_news_ok(r, news) == [status |-> "success", keyword |-> r.keyword, results |-> news]

get_top_news_ok(r, news) == [status |-> "success", type |-> "top_news", results |-> news]

\* A faulty echo: the topic comes back as the caller wrote it.
get_news_by_topic_ok_raw(r, news) ==
    [status |-> "success", topic |-> r.topic, results |-> news]

get_news_by_topic_ok(r, news) ==
    [status |-> "success", topic |-> Upper(r.topic), results |-> news]

get_news_by_location_ok(r, news) ==
    [status |-> "success", location |-> r.location, results |-> news]

get_news_by_site_ok(r, news) == [status |-> "success", site |-> r.site, results |-> news]

\* A faulty table lookup: the country tool answers with the language table.
get_available_countries_wrong_table == [status |-> "success", countries |-> AVAILABLE_LANGUAGES]

get_available_countries_ok == [status |-> "success", countries |-> AVAILABLE_COUNTRIES]

get_available_languages_ok == [status |-> "success", languages |-> AVAILABLE_LANGUAGES]

SuccessEnvelope(r, news) ==
    CASE r.tool = "search_news" -> search_news_ok(r, news)
      [] r.tool = "get_top_news" -> get_top_news_ok(r, news)
      [] r.tool = "get_news_by_topic" -> get_news_by_topic_ok(r, news)
      [] r.tool = "get_news_by_location" -> get_news_by_location_ok(r, news)
      [] r.tool = "get_news_by_site" -> get_news_by_site_ok(r, news)

TableEnvelope(r) ==
    CASE r.tool = "get_available_countries" -> get_available_countries_ok
      [] r.tool = "get_available_languages" -> get_available_languages_ok

----------------------------------------------------------------------------
\* State.
\*   pc[c]        where call c stands: "idle", "validate", "construct",
\*                "retrieve", "table" or "done"
\*   req[c]       <<>> before the call arrives, <<r>> with its arguments after
\*   instances[i] the GNews objects built so far: <<>> or <<[owner, kwargs]>>
\*   invoked[c]   the retrieval calls made inside call c, each with the
\*                configuration of the object it ran on
\*   raised[c]    "none", or where the exception call c caught came from
\*   ret[c]       the envelopes call c has returned
VARIABLES pc, req, instances, invoked, raised, ret

vars == <<pc, req, instances, invoked, raised, ret>>

\* A faulty server that keeps one module-level collaborator for every call.
SharedInstance(c) == 1

\* google_news is a local of the handler: each call refers to the object it
\* built itself.
InstanceOf(c) == c

\* A faulty handler that calls the retrieval method a second time.
CallMethodTwice(log, inv) == Append(Append(log, inv), inv)

\* news = google_news.<method>(<argument>): one call
CallMethod(log, inv) == Append(log, inv)

Req(c) == req[c][1]

Init ==
    /\ pc = [c \in Calls |-> "idle"]
    /\ req = [c \in Calls |-> <<>>]
    /\ instances = [i \in Calls |-> <<>>]
    /\ invoked = [c \in Calls |-> <<>>]
    /\ raised = [c \in Calls |-> "none"]
    /\ ret = [c \in Calls |-> <<>>]

\* The transport dispatches a tool call; calls are numbered as they arrive.
Receive(c) ==
    /\ pc[c] = "idle"
    /\ IF c = 1 THEN TRUE ELSE pc[c - 1] # "idle"
    /\ \E r \in Requests :
         /\ req' = [req EXCEPT ![c] = <<r>>]
         /\ pc' = [pc EXCEPT ![c] =
                     IF r.tool = "get_news_by_topic" THEN "validate" ELSE "construct"]
    /\ UNCHANGED <<instances, invoked, raised, ret>>

\* get_news_by_topic: topic_upper = topic.upper(); if topic_upper not in
\* valid_topics: return the error envelope.
ValidateTopic(c) ==
    /\ pc[c] = "validate"
    /\ IF TopicRejected(Req(c).topic)
       THEN /\ ret' = [ret EXCEPT ![c] = Append(@, ErrorEnvelope(InvalidTopicMessage))]
            /\ pc' = [pc EXCEPT ![c] = "done"]
       ELSE /\ pc' = [pc EXCEPT ![c] = "construct"]
            /\ UNCHANGED ret
    /\ UNCHANGED <<req, instances, invoked, raised>>

\* google_news = GNews(...) returns.
Construct(c) ==
    /\ pc[c] = "construct"
    /\ instances' = [instances EXCEPT ![InstanceOf(c)] =
                       << [owner |-> c, kwargs |-> KwArgs(Req(c))] >>]
    /\ pc' = [pc EXCEPT ![c] = IF Req(c).tool \in ListTools THEN "table" ELSE "retrieve"]
    /\ UNCHANGED <<req, invoked, raised, ret>>

\* GNews(...) raises: except Exception as e: return the error envelope.
ConstructRaises(c) ==
    /\ pc[c] = "construct"
    /\ \E msg \in ConstructorMessages :
         ret' = [ret EXCEPT ![c] = Append(@, ErrorEnvelope(msg))]
    /\ raised' = [raised EXCEPT ![c] = "constructor"]
    /\ pc' = [pc EXCEPT ![c] = "done"]
    /\ UNCHANGED <<req, instances, invoked>>

\* The retrieval method returns news: return the success envelope.
Retrieve(c) ==
    /\ pc[c] = "retrieve"
    /\ invoked' = [invoked EXCEPT ![c] =
                     CallMethod(@, [call |-> MethodCall(Req(c)),
                                    self |-> instances[InstanceOf(c)][1]])]
    /\ \E news \in NewsResults :
         ret' = [ret EXCEPT ![c] = Append(@, SuccessEnvelope(Req(c), news))]
    /\ pc' = [pc EXCEPT ![c] = "done"]
    /\ UNCHANGED <<req, instances, raised>>

\* The retrieval method raises: except Exception as e: return the error
\* envelope.
RetrieveRaises(c) ==
    /\ pc[c] = "retrieve"
    /\ invoked' = [invoked EXCEPT ![c] =
                     CallMethod(@, [call |-> MethodCall(Req(c)),
                                    self |-> instances[InstanceOf(c)][1]])]
    /\ \E msg \in ExceptionMessages :
         ret' = [ret EXCEPT ![c] = Append(@, ErrorEnvelope(msg))]
    /\ raised' = [raised EXCEPT ![c] = "method"]
    /\ pc' = [pc EXCEPT ![c] = "done"]
    /\ UNCHANGED <<req, instances>>

\* get_available_countries / get_available_languages: return the table.
ReadTable(c) ==
    /\ pc[c] = "table"
    /\ ret' = [ret EXCEPT ![c] = Append(@, TableEnvelope(Req(c)))]
    /\ pc' = [pc EXCEPT ![c] = "done"]
    /\ UNCHANGED <<req, instances, invoked, raised>>

Next ==
    \E c \in Calls :
        \/ Receive(c)
        \/ ValidateTopic(c)
        \/ Construct(c)
        \/ ConstructRaises(c)
        \/ Retrieve(c)
        \/ RetrieveRaises(c)
        \/ ReadTable(c)

Spec == Init /\ [][Next]_vars

----------------------------------------------------------------------------
\* Vocabulary of the properties.

Arrived(c) == req[c] # <<>>

Done(c) == pc[c] = "done"

Tool(c) == Req(c).tool

\* The envelope call c returned.
Env(c) == ret[c][1]

\* Some collaborator object in memory was built by call c.
OwnsInstance(c) == \E i \in Calls : instances[i] # <<>> /\ instances[i][1].owner = c

\* str is name written in some mixture of upper and lower case.
IsCaseVariant(str, name) ==
    /\ Len(str) = Len(name)
    /\ \A idx \in DOMAIN str :
         \/ str[idx] = name[idx]
         \/ str[idx] \in DOMAIN UpperMap /\ UpperMap[str[idx]] = name[idx]

NamesValidTopic(str) == \E k \in DOMAIN valid_topics : IsCaseVariant(str, valid_topics[k])

\* The required argument of call c is the empty string.
RequiredFieldEmpty(c) ==
    CASE Tool(c) = "search_news" -> Req(c).keyword = ""
      [] Tool(c) = "get_news_by_topic" -> Req(c).topic = <<>>
      [] Tool(c) = "get_news_by_location" -> Req(c).location = ""
      [] Tool(c) = "get_news_by_site" -> Req(c).site = ""
      [] OTHER -> FALSE

----------------------------------------------------------------------------
\* C1: a get_news_by_topic call whose upper-cased topic is not one of the ten
\* valid topics never builds a collaborator and never calls a retrieval
\* method, and the envelope it returns has status "error".
C1_InvalidTopicNoCollaborator ==
    \A c \in Calls :
        (/\ Arrived(c)
         /\ Tool(c) = "get_news_by_topic"
         /\ ~InList(Upper(Req(c).topic), valid_topics))
        => /\ ~OwnsInstance(c)
           /\ invoked[c] = <<>>
           /\ raised[c] = "none"
           /\ pc[c] # "validate" => (Done(c) /\ Len(ret[c]) = 1 /\ Env(c).status = "error")

\* A call with topic SPORTSBALL has returned.
C1_Witness ==
    \E c \in Calls :
        /\ Arrived(c) /\ Tool(c) = "get_news_by_topic" /\ Done(c)
        /\ Req(c).topic = <<"S","P","O","R","T","S","B","A","L","L">>
        /\ Env(c).status = "error"

\* C2: a query tool whose collaborator raised (in the constructor or in the
\* retrieval method) returns an envelope with status "error" and a non-empty
\* message.
C2_ErrorMessageNonEmpty ==
    \A c \in Calls :
        (Arrived(c) /\ Tool(c) \in QueryTools /\ Done(c) /\ raised[c] # "none")
        => /\ Len(ret[c]) = 1
           /\ Env(c).status = "error"
           /\ Env(c).message # ""

\* C3: every retrieval made inside a search_news call runs on the object that
\* call built, configured with that call's own language, country, period,
\* max_results and exclude list; and the object a call built is still its own
\* while the call is using it.
C3_SearchUsesOwnInstance ==
    \A c \in Calls :
        (Arrived(c) /\ Tool(c) = "search_news")
        => /\ \A k \in DOMAIN invoked[c] :
                /\ invoked[c][k].self.owner = c
                /\ invoked[c][k].self.kwargs =
                     [language |-> Req(c).language, country |-> Req(c).country,
                      period |-> Req(c).period, max_results |-> Req(c).max_results,
                      exclude_websites |-> exclude_list(Req(c).exclude_websites)]
           /\ pc[c] = "retrieve" => OwnsInstance(c)

\* Two search_news calls with different max_results overlap, and the later
\* one has already retrieved while the earlier one still holds its object.
C3_Witness ==
    /\ pc[1] = "retrieve" /\ Tool(1) = "search_news"
    /\ pc[2] = "done" /\ Tool(2) = "search_news" /\ Len(invoked[2]) = 1
    /\ Req(1).max_results # Req(2).max_results

\* C4 as stated: a successful envelope echoes keyword, topic, location or
\* site exactly as the caller passed it.
C4_EchoUnchanged ==
    \A c \in Calls :
        (Arrived(c) /\ Done(c) /\ Env(c).status = "success")
        => /\ Tool(c) = "search_news" => Env(c).keyword = Req(c).keyword
           /\ Tool(c) = "get_news_by_topic" => Env(c).topic = Req(c).topic
           /\ Tool(c) = "get_news_by_location" => Env(c).location = Req(c).location
           /\ Tool(c) = "get_news_by_site" => Env(c).site = Req(c).site

\* C4 amended: a successful envelope echoes keyword, location or site exactly
\* as passed, and echoes the topic upper-cased.
C4_EchoUpperCasedTopic ==
    \A c \in Calls :
        (Arrived(c) /\ Done(c) /\ Env(c).status = "success")
        => /\ Tool(c) = "search_news" => Env(c).keyword = Req(c).keyword
           /\ Tool(c) = "get_news_by_topic" => Env(c).topic = Upper(Req(c).topic)
           /\ Tool(c) = "get_news_by_location" => Env(c).location = Req(c).location
           /\ Tool(c) = "get_news_by_site" => Env(c).site = Req(c).site

\* A call with topic "sports" has succeeded.
C4_Witness ==
    \E c \in Calls :
        /\ Arrived(c) /\ Done(c) /\ Tool(c) = "get_news_by_topic"
        /\ Req(c).topic = <<"s","p","o","r","t","s">>
        /\ Env(c).status = "success"

C6_EmptyRequiredFieldRejected ==
    \A c \in Calls :
        (Arrived(c) /\ RequiredFieldEmpty(c))
        => /\ ~OwnsInstance(c)
           /\ invoked[c] = <<>>
           /\ Done(c) => Env(c).status = "error"

\* C7 as stated: get_available_countries and get_available_languages always
\* return status "success" with the collaborator's table.
C7_ListAlwaysSuccess ==
    \A c \in Calls :
        (Arrived(c) /\ Done(c))
        => /\ Tool(c) = "get_available_countries" =>
                ret[c] = << [status |-> "success", countries |-> AVAILABLE_COUNTRIES] >>
           /\ Tool(c) = "get_available_languages" =>
                ret[c] = << [status |-> "success", languages |-> AVAILABLE_LANGUAGES] >>

\* C7 amended: whatever the other calls have done or are doing,
\* get_available_countries and get_available_languages return status
\* "success" with the collaborator's table unless the collaborator's
\* constructor raised inside that very call, and then they return an error
\* envelope.
C7_ListSuccessUnlessConstructorRaises ==
    \A c \in Calls :
        (Arrived(c) /\ Done(c) /\ Tool(c) \in ListTools)
        => IF raised[c] = "none"
           THEN /\ Tool(c) = "get_available_countries" =>
                     ret[c] = << [status |-> "success", countries |-> AVAILABLE_COUNTRIES] >>
                /\ Tool(c) = "get_available_languages" =>
                     ret[c] = << [status |-> "success", languages |-> AVAILABLE_LANGUAGES] >>
           ELSE /\ raised[c] = "constructor"
                /\ Len(ret[c]) = 1
                /\ Env(c).status = "error"

\* get_available_countries has returned its table while a search_news call
\* that overrides every option is holding its own collaborator.
C7_Witness ==
    \E c, d \in Calls :
        /\ Arrived(c) /\ Done(c) /\ Tool(c) = "get_available_countries"
        /\ Env(c).status = "success"
        /\ Arrived(d) /\ Tool(d) = "search_news" /\ pc[d] = "retrieve"
        /\ Req(d).language = "fr"

\* C8: every collaborator is built with max_results between 1 and 100.
C8_MaxResultsInRange ==
    \A i \in Calls :
        (instances[i] # <<>> /\ "max_results" \in DOMAIN instances[i][1].kwargs)
        => instances[i][1].kwargs.max_results \in 1..100

\* C9 as stated: a query tool call that passes validation calls its retrieval
\* method exactly once and returns exactly one envelope.
C9_RetrievedExactlyOnce ==
    \A c \in Calls :
        (/\ Arrived(c) /\ Done(c) /\ Tool(c) \in QueryTools
         /\ Tool(c) = "get_news_by_topic" => InList(Upper(Req(c).topic), valid_topics))
        => /\ Len(invoked[c]) = 1
           /\ Len(ret[c]) = 1

\* C9 amended: a query tool call that passes validation never calls its
\* retrieval method more than once, on success or after a failure; it has
\* called it exactly once when it returns, unless the collaborator's
\* constructor raised, in which case it has not called it; and it returns
\* exactly one envelope.
C9_RetrievedAtMostOnce ==
    \A c \in Calls :
        (/\ Arrived(c) /\ Tool(c) \in QueryTools
         /\ Tool(c) = "get_news_by_topic" => InList(Upper(Req(c).topic), valid_topics))
        => /\ Len(invoked[c]) <= 1
           /\ Len(ret[c]) = (IF Done(c) THEN 1 ELSE 0)
           /\ Done(c) => Len(invoked[c]) = (IF raised[c] = "constructor" THEN 0 ELSE 1)

\* A retrieval has failed and the call has returned without a second attempt.
C9_Witness ==
    \E c \in Calls :
        /\ Arrived(c) /\ Done(c) /\ Tool(c) = "get_top_news"
        /\ raised[c] = "method"
        /\ Len(invoked[c]) = 1
        /\ Len(ret[c]) = 1

\* C10: every envelope has status "success" or "error"; an error envelope
\* has a message and neither results nor a table; a success envelope has
\* results or a table and no message.
C10_EnvelopeShape ==
    \A c \in Calls : \A k \in DOMAIN ret[c] :
        LET env == ret[c][k]
            payload == DOMAIN env \cap {"results", "countries", "languages"}
        IN  /\ env.status \in {"success", "error"}
            /\ env.status = "error" => ("message" \in DOMAIN env /\ payload = {})
            /\ env.status = "success" => ("message" \notin DOMAIN env /\ payload # {})

\* One call has returned an error after its retrieval failed and another has
\* returned a table.
C10_Witness ==
    \E c, d \in Calls :
        /\ Done(c) /\ raised[c] = "method" /\ Env(c).status = "error"
        /\ Done(d) /\ Tool(d) \in ListTools /\ Env(d).status = "success"

====
